---- MODULE Spec2Model ----
(***************************************************************************)
(* Model of the resumable, retrying, bounded-concurrency transfer engine   *)
(* of sa-1b-dl (src/src/downloader.rs, src/src/state.rs, src/src/models.rs *)
(* and src/src/cli.rs).                                                    *)
(*                                                                         *)
(* One process run is download_all over a batch of catalog entries.  The   *)
(* output directory (completed files, .part files, .download_state.json)   *)
(* outlives the process: Restart models a kill at any point, or a re-run   *)
(* after a normal return, followed by a new run over the same directory.   *)
(*                                                                         *)
(* A file is a sequence of blocks of ChunkSize bytes each; block k of the  *)
(* remote object is the number k, so a file holds the remote content iff   *)
(* it is <<1, 2, ..., blocks>>.  File I/O errors other than the rename of  *)
(* a missing .part file are not modelled.  A task that has its .part file  *)
(* open keeps writing to that file when another task of the same name      *)
(* renames or deletes it (fd: where the open file now is).                 *)
(***************************************************************************)
EXTENDS Integers, Sequences, FiniteSets, TLC

\* ---------------------------------------------------------------- bounds
MaxEntries == 2      \* entries in a batch
MaxThreads == 2      \* num_threads ranges over 0..MaxThreads
MaxRetries == 3      \* retries ranges over 0..MaxRetries
MaxRuns == 2         \* process runs over one output directory
MaxBlocks == 3       \* blocks of the remote object
ChunkSize == 512     \* bytes in a block (one streamed chunk)
MaxAttempt == 70     \* attempt numbers the backoff specification starts from
MaxCatalog == 3      \* entries of the catalog in range mode

\* ------------------------------------------------------ program constants
SanityThreshold == 1024     \* actual_size > 1024
BackoffCap == 30000         \* .min(30000)
MsPerSecond == 1000         \* 1000 * (...)
ShiftWidth == 64            \* delay_ms is a u64 (Duration::from_millis)
NoneBytes == -1             \* total_bytes: None
HeadErr == -2               \* the HEAD request failed
NoRange == -1               \* GET without a Range header
Panicked == -1              \* delay computation panicked (debug build)

VARIABLES
  cfg,         \* [n, T, R, resume, blocks, loose, kill, dirty, start]: batch size,
               \* num_threads, retries, resume, remote object length, whether the
               \* server may misbehave, whether the process may be killed in mid-run,
               \* whether the output directory starts with a stale file and a .part,
               \* catalog index of the batch's first entry (range mode adds
               \* [end, catalog]: the --end argument and the catalog's length);
               \* names: the file names of the sorted catalog
  run,         \* number of the current process run
  pcMain,      \* position of download_all
  idx,         \* index of the for loop of download_all
  states,      \* Arc<Mutex<Vec<DownloadState>>>: the shared store
  permits,     \* free permits of the semaphore
  task,        \* per entry: the spawned task and its locals (and rejected, history:
               \* the output file is one that the task's final check found invalid)
  out,         \* <output_dir>/<name>
  part,        \* <output_dir>/<name>.part
  state_file,  \* <output_dir>/.download_state.json
  summary,     \* the "Done: x success, y failed" counts
  honest       \* history: the server has so far answered as the protocol requires

vars == <<cfg, run, pcMain, idx, states, permits, task, out, part, state_file, summary, honest>>

\* ---------------------------------------------------------------- files
NoFile == <<-1>>
Exists(f) == f # NoFile
Size(f) == ChunkSize * Len(f)
Content == [k \in 1..cfg.blocks |-> k]
Min(a, b) == IF a < b THEN a ELSE b
Max(a, b) == IF a > b THEN a ELSE b
FileCap == MaxBlocks + 1

Tasks == 1..cfg.n
\* the file name of the batch's entry i: the entry at index start + i - 1 (from 0)
\* of the sorted catalog; file names are numbers
Name(i) == cfg.names[cfg.start + i]

\* models.rs: DownloadState::new
NewState(name) ==
  [file_name |-> name, downloaded_bytes |-> 0, total_bytes |-> NoneBytes, completed |-> FALSE]

IdleTask(i) ==
  [pc |-> "idle", state |-> NewState(Name(i)), attempt |-> 0, total_bytes |-> NoneBytes,
   current_pos |-> 0, range |-> NoRange, downloaded |-> 0, body |-> <<>>,
   delay_ms |-> 0, result |-> "none", fd |-> "part", rejected |-> FALSE]

\* ------------------------------------------------------- progress store
Absent == [kind |-> "absent", recs |-> <<>>]
Torn == [kind |-> "torn", recs |-> <<>>]
Json(recs) == [kind |-> "json", recs |-> recs]

\* faulty variant of load_state: a record that cannot be parsed is taken as empty
load_state_lenient(file, resume) ==
  [ok |-> TRUE, recs |-> file.recs]

\* state.rs: StateManager::load_state; ok = FALSE is a read or parse failure.  The
\* resume setting of the Downloader is not consulted.
load_state(file, resume) ==
  IF file.kind = "absent" THEN [ok |-> TRUE, recs |-> <<>>]
  ELSE IF file.kind = "torn" THEN [ok |-> FALSE, recs |-> <<>>]
  ELSE [ok |-> TRUE, recs |-> file.recs]

\* states.iter().find(|s| s.file_name == name): index of the first match, 0 if none
Find(recs, name) ==
  LET hits == {k \in 1..Len(recs) : recs[k].file_name = name}
  IN IF hits = {} THEN 0 ELSE CHOOSE k \in hits : \A j \in hits : k <= j

\* download_all, lines 301-308: the task's own copy of its record
Lookup(recs, name) ==
  IF Find(recs, name) = 0 THEN NewState(name) ELSE recs[Find(recs, name)]

\* faulty variant of MergeStates: the record is pushed without looking for its name
MergeStatesAppend(recs, st, result) ==
  IF result = "ok" THEN Append(recs, st) ELSE recs

\* faulty variant of MergeStates: the store is overwritten with the task's own record
MergeStatesOverwrite(recs, st, result) ==
  IF result = "ok" THEN <<st>> ELSE recs

\* download_all, lines 331-342: the store merge step
MergeStates(recs, st, result) ==
  IF result = "ok"
  THEN IF Find(recs, st.file_name) # 0
       THEN [recs EXCEPT ![Find(recs, st.file_name)] = st]
       ELSE Append(recs, st)
  ELSE recs

\* ------------------------------------------------ transfer state machine
\* faulty variant of ReconcileValid: an existing file is never taken as valid
ReconcileNever(total, actual) == FALSE

\* lines 140-144
ReconcileValid(total, actual) ==
  IF total # NoneBytes THEN actual = total ELSE actual > 0

\* lines 161-164
StartOffset(resume, partF) ==
  IF resume /\ Exists(partF) THEN Size(partF) ELSE 0

\* line 156: fs::remove_file (also the path's state when no file was there)
RemoveFile(f) == NoFile

\* faulty variant of PartialExceeds: the guard is missing
PartialExceedsNever(total, pos) == FALSE

\* lines 166-173
PartialExceeds(total, pos) == total # NoneBytes /\ pos > 0 /\ pos > total

\* lines 180-181
FullyStaged(total, pos) == total # NoneBytes /\ pos >= total

\* faulty variant of RangeHeader: the Range header is never sent
RangeHeaderNever(pos) == NoRange

\* lines 203-206
RangeHeader(pos) == IF pos > 0 THEN pos ELSE NoRange

\* lines 236-243
FinalValid(total, actual) ==
  LET expected_size == IF total = NoneBytes THEN 0 ELSE total
  IN IF expected_size > 0 THEN actual = expected_size ELSE actual > SanityThreshold

\* download_file from the HEAD reply h up to its next await or return (lines 125-208).
\* kind: "err" (return Err), "ok" (return Ok), "get" (GET request sent).
download_file_probe(st, h, outF, partF) ==
  IF h = HeadErr
  THEN [kind |-> "err", state |-> st, out |-> outF, part |-> partF, pos |-> 0,
        removed |-> FALSE, renamed |-> FALSE]
  ELSE IF Exists(outF) /\ ReconcileValid(h, Size(outF))
  THEN [kind |-> "ok",
        state |-> [st EXCEPT !.completed = TRUE, !.downloaded_bytes = Size(outF)],
        out |-> outF, part |-> partF, pos |-> 0, removed |-> FALSE, renamed |-> FALSE]
  ELSE LET pos == StartOffset(cfg.resume, partF)
           st1 == [st EXCEPT !.total_bytes = h]
       IN IF PartialExceeds(h, pos)
          THEN [kind |-> "err", state |-> st, out |-> RemoveFile(outF), part |-> partF,
                pos |-> pos, removed |-> Exists(outF), renamed |-> FALSE]
          ELSE IF FullyStaged(h, pos)
          THEN IF Exists(partF)
               THEN [kind |-> "ok",
                     state |-> [st1 EXCEPT !.completed = TRUE,
                                           !.downloaded_bytes = Size(partF)],
                     out |-> partF, part |-> NoFile, pos |-> pos,
                     removed |-> Exists(outF), renamed |-> TRUE]
               ELSE [kind |-> "err", state |-> st1, out |-> RemoveFile(outF),
                     part |-> partF, pos |-> pos,
                     removed |-> Exists(outF), renamed |-> FALSE]
          ELSE [kind |-> "get", state |-> st1, out |-> RemoveFile(outF),
                part |-> IF Exists(partF) THEN partF ELSE <<>>, pos |-> pos,
                removed |-> Exists(outF), renamed |-> FALSE]

\* where a file that a task holds open is after another task deleted the output file
\* (removed) and then renamed the .part file over the output path (renamed)
NewHome(fd, removed, renamed) ==
  LET fd1 == IF removed /\ fd = "out" THEN "gone" ELSE fd
  IN IF ~renamed THEN fd1
     ELSE IF fd1 = "part" THEN "out"
     ELSE IF fd1 = "out" THEN "gone"
     ELSE fd1

\* the tasks after task i deleted or renamed files of its name: the other tasks of
\* that name that have their file open (lines 197-232) keep it
Rehome(tk, i, removed, renamed) ==
  [j \in DOMAIN tk |->
     IF j # i /\ Name(j) = Name(i) /\ tk[j].pc \in {"get", "stream"}
     THEN [tk[j] EXCEPT !.fd = NewHome(@, removed, renamed)]
     ELSE tk[j]]

\* ------------------------------------------------------ retry controller
\* line 98
RetryAgain(attempt, retries) == attempt < retries

\* line 100: 1000 * (1 << (attempt - 1)).min(30000), in u64.  For shifts of 15..63
\* the shifted value is above 30000, so the minimum is 30000.  A shift of 64 or more
\* overflows: a debug build panics, a release build masks the shift amount.
ShlMin(sh) == IF sh >= 15 THEN BackoffCap ELSE Min(2 ^ sh, BackoffCap)

BackoffDelays(attempt) ==
  LET sh == attempt - 1
  IN IF sh < ShiftWidth
     THEN {MsPerSecond * ShlMin(sh)}
     ELSE {Panicked, MsPerSecond * ShlMin(sh % ShiftWidth)}

\* download_file returns: its locals are dropped (the last HEAD reply and the last
\* starting offset are kept as history until the next attempt overwrites them)
Returned(tk) ==
  [tk EXCEPT !.range = NoRange, !.downloaded = 0, !.body = <<>>, !.fd = "part"]

\* download_file_with_retry, lines 90-112, after download_file returned Err.  A panic
\* unwinds the task: no merge, the permit is dropped, join_all sees a task error.
FailOutcomes(tk) ==
  IF RetryAgain(tk.attempt, cfg.R)
  THEN {[Returned(tk) EXCEPT !.pc = IF d = Panicked THEN "release" ELSE "backoff",
                             !.delay_ms = d,
                             !.result = IF d = Panicked THEN "err" ELSE @] :
          d \in BackoffDelays(tk.attempt)}
  ELSE {[Returned(tk) EXCEPT !.pc = "merge", !.result = "err"]}

\* download_file_with_retry, lines 91-97, after download_file returned Ok
SuccessOutcome(tk) == [Returned(tk) EXCEPT !.pc = "merge", !.result = "ok"]

\* ---------------------------------------------------------------- server
HeadReplies ==
  {HeadErr, NoneBytes, Size(Content)}
    \cup (IF cfg.loose
          THEN {ChunkSize * k : k \in {cfg.blocks - 1, cfg.blocks + 1} \cap 0..(MaxBlocks + 1)}
          ELSE {})

\* the body of a 206 reply to Range: bytes=<range>-
Suffix(range) == SubSeq(Content, (range \div ChunkSize) + 1, Len(Content))

HonestBodies(range) ==
  IF range = NoRange THEN {Content}
  ELSE IF range < Size(Content) THEN {Suffix(range)} ELSE {}

GetBodies(range) == HonestBodies(range) \cup (IF cfg.loose THEN {Content} ELSE {})

\* ------------------------------------------------------------------ Init
\* a link file is a sequence of lines: HeaderLine is the line "file_name<TAB>cdn_link",
\* NoTabLine a line without a tab, and k > 0 the line "<name k><TAB><url>"
HeaderLine == -1
NoTabLine == 0

LinkFiles ==
  {l \in UNION {[1..len -> -1..MaxEntries] : len \in 1..(MaxEntries + 1)} :
     \A k \in 2..Len(l) : l[k] # HeaderLine}

IsEntryLine(l) == l # NoTabLine

\* downloader.rs lines 52-75: a first line that starts with "file_name" is skipped,
\* every line with a tab is an entry; lines that repeat a name are all kept
parse_link_file(lines) ==
  LET body == IF lines[1] = HeaderLine THEN Tail(lines) ELSE lines
  IN SelectSeq(body, IsEntryLine)

\* main.rs line 510: entries.sort_by(|a, b| a.file_name.cmp(&b.file_name))
SortByName(es) ==
  LET n == Len(es)
      Below(v) == Cardinality({j \in 1..n : es[j] < v})
      Same(v) == Cardinality({j \in 1..n : es[j] = v})
  IN [k \in 1..n |->
        CHOOSE v \in {es[j] : j \in 1..n} : Below(v) < k /\ k <= Below(v) + Same(v)]

\* the catalogs main hands to download_all (an empty catalog is rejected, main.rs 505)
Catalogs ==
  {SortByName(parse_link_file(l)) : l \in LinkFiles} \ {<<>>}

\* file names are numbered in the order of the sorted catalog: one catalog for each
\* pattern of repeated names
InOrder(names) ==
  /\ names[1] = 1
  /\ \A k \in 1..(Len(names) - 1) : names[k + 1] \in {names[k], names[k] + 1}

\* the sequence of len distinct names
Distinct(len) == [k \in 1..len |-> k]

Configs ==
  {c \in [n : 1..MaxEntries, T : 0..MaxThreads, R : 0..MaxRetries, resume : BOOLEAN,
          blocks : 0..MaxBlocks, loose : BOOLEAN, kill : BOOLEAN, dirty : BOOLEAN,
          start : {0}, names : Catalogs] :
     /\ Len(c.names) = c.n /\ InOrder(c.names)
     /\ c.names # Distinct(c.n) => c.R = 1 /\ c.n = 2
     /\ \/ c.n = 1 /\ c.T = 1 /\ c.blocks \in {1, MaxBlocks} /\ c.kill
             /\ (c.dirty => ~c.loose)
        \/ c.n > 1 /\ c.R >= 1 /\ c.n * c.R <= 4 /\ c.blocks = 1 /\ c.resume
             /\ ~c.loose /\ ~c.kill /\ ~c.dirty}

InitRun ==
  /\ pcMain = "load"
  /\ idx = 1
  /\ states = <<>>
  /\ permits = 0
  /\ task = [i \in Tasks |-> IdleTask(i)]
  /\ summary = [success |-> 0, failed |-> 0]

Init ==
  /\ cfg \in Configs
  /\ run = 1
  /\ InitRun
  /\ out = [i \in Tasks |-> IF cfg.dirty THEN <<>> ELSE NoFile]
  /\ part = [i \in Tasks |-> IF cfg.dirty THEN <<1>> ELSE NoFile]
  /\ state_file = Absent
  /\ honest = TRUE

disk == <<out, part, state_file>>

\* ------------------------------------------------------- download_all
\* lines 290-295
Load ==
  /\ pcMain = "load"
  /\ LET r == load_state(state_file, cfg.resume)
     IN IF r.ok
        THEN /\ states' = r.recs
             /\ permits' = cfg.T
             /\ pcMain' = IF cfg.n >= 1 THEN "lookup" ELSE "join"
        ELSE /\ pcMain' = "error"
             /\ UNCHANGED <<states, permits>>
  /\ UNCHANGED <<cfg, run, idx, task, disk, summary, honest>>

\* lines 299-309
LookupState ==
  /\ pcMain = "lookup"
  /\ task' = [task EXCEPT ![idx].state = Lookup(states, Name(idx))]
  /\ pcMain' = "acquire"
  /\ UNCHANGED <<cfg, run, idx, states, permits, disk, summary, honest>>

\* faulty variant of CanAcquire: the task is spawned without waiting for a permit
CanAcquireAny(p) == TRUE

\* line 315: acquire_owned().await returns once a permit is free
CanAcquire(p) == p > 0

\* lines 315-329: the permit is acquired, the task is spawned and sends its first HEAD
Acquire ==
  /\ pcMain = "acquire"
  /\ CanAcquire(permits)
  /\ permits' = permits - 1
  /\ task' = [task EXCEPT ![idx].pc = "head", ![idx].attempt = 1]
  /\ idx' = idx + 1
  /\ pcMain' = IF idx + 1 > cfg.n THEN "join" ELSE "lookup"
  /\ UNCHANGED <<cfg, run, states, disk, summary, honest>>

\* ------------------------------------------------------- download_file
HeadResponse(i) ==
  /\ task[i].pc = "head"
  /\ \E h \in HeadReplies :
       LET r == download_file_probe(task[i].state, h, out[Name(i)], part[Name(i)])
           tk == [task[i] EXCEPT !.state = r.state,
                                 !.total_bytes = h,
                                 !.current_pos = r.pos,
                                 !.downloaded = 0,
                                 !.body = <<>>,
                                 !.rejected = @ /\ ~r.removed,
                                 !.range = IF r.kind = "get" THEN RangeHeader(r.pos) ELSE NoRange]
       IN /\ out' = [out EXCEPT ![Name(i)] = r.out]
          /\ part' = [part EXCEPT ![Name(i)] = r.part]
          /\ honest' = (honest /\ h \in {HeadErr, NoneBytes, Size(Content)})
          /\ task' \in {[Rehome(task, i, r.removed, r.renamed) EXCEPT ![i] = x] :
                          x \in IF r.kind = "err" THEN FailOutcomes(tk)
                                ELSE IF r.kind = "ok" THEN {SuccessOutcome(tk)}
                                ELSE {[tk EXCEPT !.pc = "get", !.fd = "part"]}}
  /\ UNCHANGED <<cfg, run, pcMain, idx, states, permits, state_file, summary>>

\* lines 208-212: the GET fails, or answers with a status that is no success
GetFailed(i) ==
  /\ task[i].pc = "get"
  /\ task' \in {[task EXCEPT ![i] = x] : x \in FailOutcomes(task[i])}
  /\ UNCHANGED <<cfg, run, pcMain, idx, states, permits, disk, summary, honest>>

\* lines 208-214: the GET answers 200 or 206 and the body starts to arrive
GetResponse(i) ==
  /\ task[i].pc = "get"
  /\ \E b \in GetBodies(task[i].range) :
       /\ task' = [task EXCEPT ![i].pc = "stream", ![i].body = b]
       /\ honest' = (honest /\ b \in HonestBodies(task[i].range))
  /\ UNCHANGED <<cfg, run, pcMain, idx, states, permits, disk, summary>>

\* the file a task's open handle writes to, NoFile if it was deleted or replaced
Target(i) ==
  IF task[i].fd = "part" THEN part[Name(i)]
  ELSE IF task[i].fd = "out" THEN out[Name(i)]
  ELSE NoFile

\* lines 216-232: one chunk is appended to the file opened as the .part file
\* (write_all fails, and StreamError is the only step, once the file holds FileCap
\* blocks: the disk is full)
Chunk(i) ==
  /\ task[i].pc = "stream"
  /\ task[i].body # <<>>
  /\ Len(Target(i)) < FileCap
  /\ part' = IF task[i].fd = "part"
             THEN [part EXCEPT ![Name(i)] = Append(@, Head(task[i].body))]
             ELSE part
  /\ out' = IF task[i].fd = "out"
            THEN [out EXCEPT ![Name(i)] = Append(@, Head(task[i].body))]
            ELSE out
  /\ task' = [task EXCEPT ![i].body = Tail(@),
                          ![i].downloaded = @ + ChunkSize,
                          ![i].state.downloaded_bytes =
                             task[i].current_pos + task[i].downloaded + ChunkSize]
  /\ UNCHANGED <<cfg, run, pcMain, idx, states, permits, state_file, summary, honest>>

\* lines 216 and 221: response.chunk() or write_all fails
StreamError(i) ==
  /\ task[i].pc = "stream"
  /\ task' \in {[task EXCEPT ![i] = x] : x \in FailOutcomes(task[i])}
  /\ UNCHANGED <<cfg, run, pcMain, idx, states, permits, disk, summary, honest>>

\* lines 264-278
finalize_download(st, actual, is_valid) ==
  [st EXCEPT !.completed = is_valid, !.downloaded_bytes = actual]

\* lines 216-256: the body ends (early, when the server cuts it short); rename,
\* validate, finalize
StreamEnd(i) ==
  /\ task[i].pc = "stream"
  /\ task[i].body = <<>> \/ cfg.loose
  /\ LET f == part[Name(i)]
         is_valid == FinalValid(task[i].total_bytes, Size(f))
         tk == [task[i] EXCEPT !.state = finalize_download(@, Size(f), is_valid),
                               !.body = <<>>,
                               !.rejected = ~is_valid]
     IN IF Exists(f)
        THEN /\ out' = [out EXCEPT ![Name(i)] = f]
             /\ part' = [part EXCEPT ![Name(i)] = NoFile]
             /\ task' \in {[Rehome(task, i, FALSE, TRUE) EXCEPT ![i] = x] :
                             x \in IF is_valid THEN {SuccessOutcome(tk)}
                                   ELSE FailOutcomes(tk)}
        ELSE \* line 234: another task of the same name has renamed the .part file
             /\ UNCHANGED <<out, part>>
             /\ task' \in {[task EXCEPT ![i] = x] : x \in FailOutcomes(task[i])}
  /\ honest' = (honest /\ task[i].body = <<>>)
  /\ UNCHANGED <<cfg, run, pcMain, idx, states, permits, state_file, summary>>

\* faulty variant of BackoffDone: the retry sends its GET with the offset and the size
\* of the attempt before, without a new probe
BackoffDoneNoProbe(i) ==
  /\ task[i].pc = "backoff"
  /\ task' = [task EXCEPT ![i].pc = "get", ![i].attempt = @ + 1, ![i].delay_ms = 0]
  /\ UNCHANGED <<cfg, run, pcMain, idx, states, permits, disk, summary, honest>>

\* line 104 and line 88: the backoff sleep ends, the next attempt sends its HEAD
BackoffDone(i) ==
  /\ task[i].pc = "backoff"
  /\ task' = [task EXCEPT ![i].pc = "head", ![i].attempt = @ + 1, ![i].delay_ms = 0]
  /\ UNCHANGED <<cfg, run, pcMain, idx, states, permits, disk, summary, honest>>

\* lines 331-342
Merge(i) ==
  /\ task[i].pc = "merge"
  /\ states' = MergeStates(states, task[i].state, task[i].result)
  /\ task' = [task EXCEPT ![i].pc = "release"]
  /\ UNCHANGED <<cfg, run, pcMain, idx, permits, disk, summary, honest>>

\* faulty variant of Release: the task ends without giving its permit back
ReleaseLeak(i) ==
  /\ task[i].pc = "release"
  /\ task' = [task EXCEPT ![i].pc = "done"]
  /\ UNCHANGED <<cfg, run, pcMain, idx, states, permits, disk, summary, honest>>

\* lines 344-347
Release(i) ==
  /\ task[i].pc = "release"
  /\ permits' = permits + 1
  /\ task' = [task EXCEPT ![i].pc = "done"]
  /\ UNCHANGED <<cfg, run, pcMain, idx, states, disk, summary, honest>>

\* faulty variant of AllJoined: the join ends at the first failed task
FirstFailedOrAllJoined(tk) ==
  \/ \A i \in DOMAIN tk : tk[i].pc = "done"
  \/ \E i \in DOMAIN tk : tk[i].pc = "done" /\ tk[i].result = "err"

\* lines 353-360: join_all(handles).await
AllJoined(tk) == \A i \in DOMAIN tk : tk[i].pc = "done"

\* lines 353-366 and state.rs 28-32: all tasks joined; fs::write truncates the record
SaveTruncate ==
  /\ pcMain = "join"
  /\ AllJoined(task)
  /\ state_file' = Torn
  /\ pcMain' = "save"
  /\ UNCHANGED <<cfg, run, idx, states, permits, task, out, part, summary, honest>>

\* faulty variant of Count: the records of the store are counted as the successes
CountStored(res) == IF res = "ok" THEN Len(states) ELSE cfg.n - Len(states)

\* lines 368-375: the results of the joined tasks with the given outcome
Count(res) == Cardinality({i \in Tasks : task[i].result = res})

\* state.rs 32 and downloader.rs 368-378: the record is written, the summary printed
SaveWrite ==
  /\ pcMain = "save"
  /\ state_file' = Json(states)
  /\ summary' = [success |-> Count("ok"), failed |-> Count("err")]
  /\ pcMain' = "returned"
  /\ UNCHANGED <<cfg, run, idx, states, permits, task, out, part, honest>>

\* the process is killed, or has ended, and the program is run again
Restart ==
  /\ run < MaxRuns
  /\ cfg.kill \/ pcMain \in {"returned", "error"}
  /\ run' = run + 1
  /\ pcMain' = "load"
  /\ idx' = 1
  /\ states' = <<>>
  /\ permits' = 0
  /\ task' = [i \in Tasks |-> IdleTask(i)]
  /\ summary' = [success |-> 0, failed |-> 0]
  /\ UNCHANGED <<cfg, disk, honest>>

Next ==
  \/ Load
  \/ LookupState
  \/ Acquire
  \/ \E i \in Tasks : HeadResponse(i)
  \/ \E i \in Tasks : GetFailed(i)
  \/ \E i \in Tasks : GetResponse(i)
  \/ \E i \in Tasks : Chunk(i)
  \/ \E i \in Tasks : StreamError(i)
  \/ \E i \in Tasks : StreamEnd(i)
  \/ \E i \in Tasks : BackoffDone(i)
  \/ \E i \in Tasks : Merge(i)
  \/ \E i \in Tasks : Release(i)
  \/ SaveTruncate
  \/ SaveWrite
  \/ Restart

Spec == Init /\ [][Next]_vars

\* ------------------------------------------------------------ one fair run
\* One run of download_all that is not killed, in which every HTTP request, every
\* backoff sleep and every step of the program that can be taken is eventually taken.
NextLive ==
  \/ Load
  \/ LookupState
  \/ Acquire
  \/ \E i \in Tasks : HeadResponse(i)
  \/ \E i \in Tasks : GetFailed(i)
  \/ \E i \in Tasks : GetResponse(i)
  \/ \E i \in Tasks : Chunk(i)
  \/ \E i \in Tasks : StreamError(i)
  \/ \E i \in Tasks : StreamEnd(i)
  \/ \E i \in Tasks : BackoffDone(i)
  \/ \E i \in Tasks : Merge(i)
  \/ \E i \in Tasks : Release(i)
  \/ SaveTruncate
  \/ SaveWrite

SpecLive == Init /\ [][NextLive]_vars /\ WF_vars(NextLive)

\* ---------------------------------------------- the backoff computation
\* One entry in mid-run, about to make attempt number a of MaxAttempt + 1, for
\* every a in 1..MaxAttempt: the inputs of the delay computation of line 100.
InitBackoff ==
  /\ cfg = [n |-> 1, T |-> 1, R |-> MaxAttempt + 1, resume |-> TRUE, blocks |-> 1,
            loose |-> FALSE, kill |-> FALSE, dirty |-> FALSE, start |-> 0,
            names |-> Distinct(1)]
  /\ run = MaxRuns
  /\ pcMain = "join"
  /\ idx = 2
  /\ states = <<>>
  /\ permits = 0
  /\ \E a \in 1..MaxAttempt :
       task = [i \in Tasks |-> [IdleTask(i) EXCEPT !.pc = "head", !.attempt = a]]
  /\ summary = [success |-> 0, failed |-> 0]
  /\ out = [i \in Tasks |-> NoFile]
  /\ part = [i \in Tasks |-> NoFile]
  /\ state_file = Absent
  /\ honest = TRUE

NextBackoff ==
  \/ \E i \in Tasks : HeadResponse(i)
  \/ \E i \in Tasks : GetFailed(i)
  \/ \E i \in Tasks : GetResponse(i)
  \/ \E i \in Tasks : Chunk(i)
  \/ \E i \in Tasks : StreamError(i)
  \/ \E i \in Tasks : StreamEnd(i)
  \/ \E i \in Tasks : BackoffDone(i)
  \/ \E i \in Tasks : Merge(i)
  \/ \E i \in Tasks : Release(i)
  \/ SaveTruncate
  \/ SaveWrite

SpecBackoff == InitBackoff /\ [][NextBackoff]_vars

\* ------------------------------------------------------------ range mode
\* faulty variant of InvalidRange: the order of start and end is not compared
InvalidRangeNoOrder(start, end, len) == start >= len \/ end >= len

\* main.rs line 531
InvalidRange(start, end, len) == start >= len \/ end >= len \/ start > end

\* main.rs lines 528-537: range mode validates the selection and calls download_all
\* with entries[start..=end]
Main ==
  /\ pcMain = "main"
  /\ IF InvalidRange(cfg.start, cfg.end, cfg.catalog)
     THEN /\ pcMain' = "error"
          /\ UNCHANGED <<cfg, task>>
     ELSE /\ pcMain' = "load"
          /\ cfg' = [cfg EXCEPT !.n = Max(cfg.end - cfg.start + 1, 0)]
          /\ task' = [i \in 1..Max(cfg.end - cfg.start + 1, 0) |-> IdleTask(i)]
  /\ UNCHANGED <<run, idx, states, permits, disk, summary, honest>>

\* the record an earlier run saved for the catalog's first entry, which it completed
FirstDone ==
  [file_name |-> 1, downloaded_bytes |-> ChunkSize, total_bytes |-> ChunkSize,
   completed |-> TRUE]

\* the program started in range mode over a catalog of 1..MaxCatalog entries, with
\* every pair of --start and --end up to MaxCatalog; the directory may hold the record
\* of an earlier run, empty or with the catalog's first entry completed
InitRange ==
  /\ cfg \in {c \in [n : {0}, T : {1}, R : {2}, resume : {TRUE}, blocks : {1},
                      loose : {FALSE}, kill : {FALSE}, dirty : {FALSE},
                      start : 0..MaxCatalog, end : 0..MaxCatalog,
                      catalog : 1..MaxCatalog,
                      names : {Distinct(len) : len \in 1..MaxCatalog}] :
                 Len(c.names) = c.catalog}
  /\ run = MaxRuns
  /\ pcMain = "main"
  /\ idx = 1
  /\ states = <<>>
  /\ permits = 0
  /\ task = <<>>
  /\ summary = [success |-> 0, failed |-> 0]
  /\ state_file \in {Absent, Json(<<>>), Json(<<FirstDone>>)}
  /\ out = [k \in 1..cfg.catalog |->
              IF k = 1 /\ state_file = Json(<<FirstDone>>) THEN <<1>> ELSE NoFile]
  /\ part = [k \in 1..cfg.catalog |-> NoFile]
  /\ honest = TRUE

NextRange ==
  \/ Main
  \/ Load
  \/ LookupState
  \/ Acquire
  \/ \E i \in Tasks : HeadResponse(i)
  \/ \E i \in Tasks : GetFailed(i)
  \/ \E i \in Tasks : GetResponse(i)
  \/ \E i \in Tasks : Chunk(i)
  \/ \E i \in Tasks : StreamError(i)
  \/ \E i \in Tasks : StreamEnd(i)
  \/ \E i \in Tasks : BackoffDone(i)
  \/ \E i \in Tasks : Merge(i)
  \/ \E i \in Tasks : Release(i)
  \/ SaveTruncate
  \/ SaveWrite

SpecRange == InitRange /\ [][NextRange]_vars

\* ------------------------------------------------------------ properties
Held == {i \in Tasks : task[i].pc \notin {"idle", "done"}}
Ended(i) == task[i].pc \in {"merge", "release", "done"}
\* a step in which entry i's download_file handles its HEAD reply
ProbeStep(i) == task[i].pc = "head" /\ task'[i].pc # "head" /\ run' = run

\* C1: the number of entries holding an admission slot (spawned and not yet past the
\* release of their permit) never exceeds num_threads.
C1_ConcurrencyBound == Cardinality(Held) <= cfg.T

\* C1 witness: with num_threads = 1 the first entry's GET is in flight, no permit is
\* free and the loop waits to admit the second entry.
C1_Witness ==
  /\ cfg.n = 2 /\ cfg.T = 1 /\ pcMain = "acquire" /\ idx = 2 /\ permits = 0
  /\ task[1].pc = "get" /\ task[2].pc = "idle"

C3_SkipCorrectness ==
  [][\A i \in Tasks :
       (ProbeStep(i) /\ Exists(out[Name(i)])
          /\ task'[i].total_bytes = Size(out[Name(i)])) =>
         /\ task'[i].pc = "merge" /\ task'[i].result = "ok"
         /\ out' = out /\ part' = part
         /\ task'[i].state.completed
         /\ task'[i].state.downloaded_bytes = Size(out[Name(i)])]_vars

\* C3 witness: a first attempt that found the completed file of a killed run (no
\* record was loaded, and the skip path does not store the probed size in the record)
\* returned success right after its probe.
C3_Witness ==
  /\ run = 2 /\ task[1].pc = "merge" /\ task[1].result = "ok" /\ task[1].attempt = 1
  /\ Exists(out[1]) /\ task[1].total_bytes = Size(out[1])
  /\ task[1].state.total_bytes = NoneBytes
  /\ task[1].state.completed /\ task[1].state.downloaded_bytes = Size(out[1])

\* a step in which entry i's probe finds an output file whose size differs from the
\* known expected size
StaleStep(i) ==
  /\ ProbeStep(i) /\ Exists(out[Name(i)])
  /\ task'[i].total_bytes >= 0 /\ Size(out[Name(i)]) # task'[i].total_bytes

\* C4 as claimed: when the output file's size differs from the probed size, the file
\* is deleted and the content is fetched again from offset 0: the GET carries no Range
\* header and no stored bytes are kept, also when a .part file is present.
C4_Original ==
  [][\A i \in Tasks :
       StaleStep(i) =>
         /\ out'[Name(i)] = NoFile
         /\ task'[i].pc = "get" =>
              /\ task'[i].range = NoRange /\ task'[i].current_pos = 0
              /\ part'[Name(i)] = <<>>]_vars

\* C5: with resume enabled, an attempt that finds the .part file longer than the known
\* expected size fails without sending a GET and without renaming, truncating or
\* deleting the .part file.
C5_PartialExceedsGuard ==
  [][\A i \in Tasks :
       (ProbeStep(i) /\ cfg.resume /\ Exists(part[Name(i)])
          /\ task'[i].total_bytes >= 0
          /\ Size(part[Name(i)]) > task'[i].total_bytes) =>
         /\ task'[i].pc \in {"backoff", "merge", "release"}
         /\ task'[i].result # "ok"
         /\ part' = part
         /\ ~Exists(out'[Name(i)])]_vars

\* C5 witness: an attempt failed at the guard (its offset is the .part file's length,
\* above the probed size) and waits for its retry; the .part file is still there.
C5_Witness ==
  /\ cfg.resume /\ task[1].pc = "backoff" /\ task[1].total_bytes >= 0
  /\ Exists(part[1]) /\ Size(part[1]) > task[1].total_bytes
  /\ task[1].current_pos = Size(part[1]) /\ ~Exists(out[1])

\* C6 as claimed: the transfer state machine runs at most retries times for one entry,
\* and a terminal error is reported only after exactly retries failed attempts.
C6_RetryBound ==
  \A i \in Tasks :
    /\ task[i].attempt <= cfg.R
    /\ (Ended(i) /\ task[i].result = "err") => task[i].attempt = cfg.R

\* C7 as claimed: the wait after a failed attempt a < retries is min(2^(a-1), 30)
\* seconds, and computing it never panics.
C7_BackoffDelay ==
  \A i \in Tasks :
    /\ task[i].delay_ms # Panicked
    /\ task[i].pc = "backoff" =>
         task[i].delay_ms = MsPerSecond * Min(2 ^ Min(task[i].attempt - 1, 5), 30)

\* C8: whatever entries fail, download_all returns only after every entry of the batch
\* was started (attempt >= 1: at least one probe was sent) and has run to its own end
\* (none was cancelled), and it returns the summary over all entries.
C8_FailureIsolation ==
  /\ pcMain \in {"save", "returned"} =>
       \A i \in Tasks :
         task[i].pc = "done" /\ task[i].attempt >= 1 /\ task[i].result \in {"ok", "err"}
  /\ pcMain = "returned" => summary.success + summary.failed = cfg.n

\* C8 witness: the first entry failed on its last attempt, the second entry succeeded,
\* and download_all returned with the counts 1 and 1.
C8_Witness ==
  /\ cfg.n = 2 /\ pcMain = "returned"
  /\ task[1].result = "err" /\ task[1].attempt = cfg.R /\ task[2].result = "ok"
  /\ summary = [success |-> 1, failed |-> 1]

\* C9 as claimed: when an entry's task has finished, in success or in failure, the
\* store holds the entry's record as its attempts last left it.
C9_FailedProgressMerged ==
  \A i \in Tasks :
    task[i].pc \in {"release", "done"} =>
      /\ Find(states, Name(i)) # 0
      /\ states[Find(states, Name(i))] = task[i].state

\* C10 as claimed: with resume disabled the store is empty after the load (before the
\* first entry is looked up), whatever the record on disk holds.
C10_LoadEmptyWithoutResume ==
  (~cfg.resume /\ pcMain = "lookup" /\ idx = 1) => states = <<>>

\* C11 as claimed: at every instant at which the process can be interrupted,
\* .download_state.json is absent (never saved) or holds a complete record.
C11_AtomicSave == state_file.kind \in {"absent", "json"}

\* the records a run holds or has saved: each task's own copy, the store, the file
KnownLeq(st) == st.total_bytes # NoneBytes => st.downloaded_bytes <= st.total_bytes
StoreRecs == {states[k] : k \in 1..Len(states)}
FileRecs == {state_file.recs[k] : k \in 1..Len(state_file.recs)}

\* C12 as claimed: in every record (a task's copy of its entry's progress, the store,
\* the saved file), downloaded_bytes <= total_bytes when total_bytes is known.
C12_DownloadedWithinTotal ==
  /\ \A i \in Tasks : KnownLeq(task[i].state)
  /\ \A st \in StoreRecs \cup FileRecs : KnownLeq(st)

\* completed implies that the output file exists with downloaded_bytes bytes
CompletedHasFile(st) ==
  st.completed =>
    Exists(out[st.file_name]) /\ Size(out[st.file_name]) = st.downloaded_bytes

\* C13 as claimed: completed implies the file, in the record a task holds when an
\* attempt has ended and in every record of the store saved at the end of a run.
C13_CompletedImpliesFile ==
  /\ \A i \in Tasks :
       task[i].pc \in {"backoff", "merge", "release", "done"} =>
         CompletedHasFile(task[i].state)
  /\ pcMain = "returned" => \A st \in FileRecs : CompletedHasFile(st)

\* C14 as claimed: within a run, once an entry's record has total_bytes known (from an
\* earlier probe or from the loaded record), no step sets it back to None.
C14_TotalNeverCleared ==
  [][\A i \in Tasks :
       (run' = run /\ task[i].state.total_bytes # NoneBytes) =>
         task'[i].state.total_bytes # NoneBytes]_vars

\* the record of entry i in the saved file, NewState if there is none
SavedRec(i) == Lookup(state_file.recs, Name(i))

\* C15 as claimed: an entry whose attempt k <= retries succeeded is counted as succeeded
\* and is stored, in the store and in the file saved at the end of the run, with
\* completed = true and downloaded_bytes = total_bytes (the scenario's two entries are
\* the instance with 100 and 200 bytes and k = 1 and 3).
C15_SucceededStoredComplete ==
  /\ \A i \in Tasks :
       (task[i].pc \in {"release", "done"} /\ task[i].result = "ok") =>
         /\ task[i].attempt <= Max(cfg.R, 1)
         /\ Lookup(states, Name(i)).completed
         /\ Lookup(states, Name(i)).downloaded_bytes = Lookup(states, Name(i)).total_bytes
  /\ pcMain = "returned" =>
       /\ summary.success = Count("ok")
       /\ \A i \in Tasks :
            task[i].result = "ok" =>
              /\ SavedRec(i).completed
              /\ SavedRec(i).downloaded_bytes = SavedRec(i).total_bytes

\* C16: in range mode, from a selection with start > end, start >= catalog length or
\* end >= catalog length the only step is the rejection: main ends in error, no task
\* exists or is started (so no HEAD or GET is sent), and the store, the permits, the
\* files and the progress record are left as they were.
C16_RangeValidation ==
  [][(pcMain = "main" /\ (cfg.start > cfg.end \/ cfg.start >= cfg.catalog
                           \/ cfg.end >= cfg.catalog)) =>
       /\ pcMain' = "error"
       /\ task = <<>> /\ task' = <<>>
       /\ UNCHANGED <<cfg, states, permits, out, part, state_file, summary>>]_vars

\* C16 witness: the selection start = 2, end = 1 over a catalog of 3 entries was
\* rejected: main ended in error, no task exists and the record on disk is untouched.
C16_Witness ==
  /\ pcMain = "error" /\ cfg.start = 2 /\ cfg.end = 1 /\ cfg.catalog = 3
  /\ task = <<>> /\ states = <<>> /\ state_file = Json(<<>>)

\* C17: the progress record is written only when every task of the batch has finished,
\* download_all returns only then, and the counts it reports add up to the number of
\* entries, an entry being counted as succeeded exactly when its retry-wrapped transfer
\* returned success.
C17_SchedulerCompletion ==
  /\ [](pcMain \in {"save", "returned"} => \A i \in Tasks : task[i].pc = "done")
  /\ [](pcMain = "returned" =>
          /\ summary.success = Cardinality({i \in Tasks : task[i].result = "ok"})
          /\ summary.failed = Cardinality({i \in Tasks : task[i].result # "ok"})
          /\ summary.success + summary.failed = cfg.n
          /\ state_file = Json(states))
  /\ [][state_file' # state_file => \A i \in Tasks : task[i].pc = "done"]_vars

\* C17 witness: a second run over two entries returned after both tasks had finished,
\* one in success (its record is in the saved store), one in failure, with the counts
\* 1 and 1.
C17_Witness ==
  /\ cfg.n = 2 /\ pcMain = "returned" /\ run = 2
  /\ task[1].pc = "done" /\ task[2].pc = "done"
  /\ task[1].result = "ok" /\ task[2].result = "err"
  /\ summary = [success |-> 1, failed |-> 1]
  /\ state_file = Json(states) /\ Len(states) >= 1

\* a step in which entry i's attempt, not taking the skip path, starts from an offset
\* equal to the known expected size
StagedStep(i) ==
  /\ ProbeStep(i)
  /\ task'[i].total_bytes >= 0
  /\ ~(Exists(out[Name(i)]) /\ Size(out[Name(i)]) = task'[i].total_bytes)
  /\ task'[i].current_pos = task'[i].total_bytes

\* C18 as claimed: an attempt whose starting offset equals the known expected size
\* (0 included, with or without a .part file) sends no GET, renames the .part file and
\* returns success with completed = true and downloaded_bytes = the expected size.
C18_FullyStaged ==
  [][\A i \in Tasks :
       StagedStep(i) =>
         /\ task'[i].pc = "merge" /\ task'[i].result = "ok"
         /\ task'[i].state.completed
         /\ task'[i].state.downloaded_bytes = task'[i].total_bytes
         /\ part'[Name(i)] = NoFile
         /\ Exists(part[Name(i)]) => out'[Name(i)] = part[Name(i)]]_vars

\* C19: attempts of one entry come one after the other (the attempt number grows by
\* one, from the backoff of the attempt before, and the new attempt starts with its
\* HEAD); a GET is sent, and the output and .part files are touched, only after the
\* attempt's own HEAD reply; and the size the attempt decides with (skip, record,
\* final check) is the one of its own probe, not the one stored by an earlier attempt.
C19_RetryRestartsFromProbe ==
  [][/\ \A f \in DOMAIN out :
          (out'[f] # out[f] \/ part'[f] # part[f]) =>
            \E i \in Tasks :
              Name(i) = f /\ task[i].pc \in {"head", "stream"} /\ task'[i] # task[i]
     /\ \A i \in Tasks :
       run' = run =>
         /\ task'[i].attempt # task[i].attempt =>
              /\ task[i].pc \in {"idle", "backoff"}
              /\ task'[i].attempt = task[i].attempt + 1
              /\ task'[i].pc = "head"
         /\ (task'[i].pc = "get" /\ task[i].pc # "get") =>
              /\ task[i].pc = "head"
              /\ task'[i].state.total_bytes = task'[i].total_bytes
         /\ (ProbeStep(i) /\ task'[i].pc = "merge" /\ task'[i].result = "ok"
               /\ Exists(out[Name(i)]) /\ out' = out /\ part' = part) =>
              IF task'[i].total_bytes >= 0
              THEN Size(out[Name(i)]) = task'[i].total_bytes
              ELSE Size(out[Name(i)]) > 0
         /\ (task[i].pc = "stream" /\ task'[i].pc = "merge" /\ task'[i].result = "ok"
               /\ task[i].total_bytes > 0) =>
              Size(out'[Name(i)]) = task[i].total_bytes]_vars

\* C19 witness: a retry probed again, got a size other than the one the attempt before
\* had stored in the record, and decided (here: to skip) with the new one.
C19_Witness ==
  /\ task[1].attempt >= 2 /\ task[1].pc = "merge" /\ task[1].result = "ok"
  /\ task[1].total_bytes >= 0 /\ task[1].state.total_bytes >= 0
  /\ task[1].state.total_bytes # task[1].total_bytes
  /\ Exists(out[1]) /\ Size(out[1]) = task[1].total_bytes

\* the semaphore exists: download_all is past line 295
Scheduling == pcMain \in {"lookup", "acquire", "join", "save", "returned"}

C21_MergeFrame ==
  [][(run' = run /\ pcMain \notin {"main", "load"}) =>
       /\ Len(states') >= Len(states)
       /\ Len(states') <= Len(states) + 1
       /\ \A k \in 1..Len(states) :
            states'[k] # states[k] =>
              \E i \in Tasks :
                /\ task[i].pc = "merge" /\ task'[i].pc = "release"
                /\ states[k].file_name = Name(i)
                /\ states'[k] = task[i].state
       /\ Len(states') > Len(states) =>
            \E i \in Tasks :
              /\ task[i].pc = "merge" /\ task'[i].pc = "release"
              /\ states'[Len(states')] = task[i].state
              /\ task[i].state.file_name = Name(i)
       /\ (pcMain = "save" /\ pcMain' = "returned") => state_file' = Json(states)]_vars

\* C21 witness: a range that leaves out the catalog's first entry ran over a directory
\* whose record held that entry; a task of the batch merged its own record, and the
\* saved record holds both.
C21_Witness ==
  /\ pcMain = "returned" /\ cfg.start >= 1 /\ cfg.n >= 1
  /\ Len(state_file.recs) >= 2
  /\ state_file.recs[1] = FirstDone
  /\ state_file.recs[2].file_name = Name(1) /\ state_file.recs[2].completed

\* a task that has been spawned and has not yet returned from its transfer
Active(i) == task[i].pc \in {"head", "get", "stream", "backoff"}

\* C22 as claimed: no two tasks that are active at the same time work on the same
\* output file and .part file (the files of one name).
C22_OneTaskPerFile ==
  \A i, j \in Tasks : (i # j /\ Active(i) /\ Active(j)) => Name(i) # Name(j)

\* C23: when the progress record exists and cannot be parsed at the start of
\* download_all, the only step of the run is the failed load: download_all ends in
\* error, no task is started (so no HEAD or GET is sent), and the files, the record on
\* disk included, are left as they were; a run that has ended in error does nothing more.
C23_SetupFailureFatal ==
  /\ [][(pcMain = "load" /\ state_file.kind = "torn" /\ run' = run) =>
          /\ pcMain' = "error"
          /\ UNCHANGED <<states, permits, task, out, part, state_file, summary>>]_vars
  /\ [][pcMain = "error" => (run' = run + 1 /\ UNCHANGED <<out, part, state_file>>)]_vars
  /\ [](pcMain = "error" => \A i \in Tasks : task[i].pc = "idle" /\ task[i].attempt = 0)

\* C23 witness: the second run found the record that the killed save of the first run
\* had left half-written, and ended in error with no task started.
C23_Witness ==
  /\ run = 2 /\ pcMain = "error" /\ state_file = Torn
  /\ \A i \in Tasks : task[i].pc = "idle" /\ task[i].attempt = 0

\* C24 as claimed: while the body is streamed, for both resume settings and whether or
\* not a .part file was there before the attempt, the record's downloaded_bytes is the
\* length of the .part file after every chunk appended (catalog without repeated
\* names, so that only this task writes to the file).
C24_CheckpointConsistency ==
  \A i \in Tasks :
    (cfg.names = Distinct(Len(cfg.names)) /\ task[i].pc = "stream"
       /\ task[i].downloaded > 0) =>
      /\ Exists(part[Name(i)])
      /\ task[i].state.downloaded_bytes = Size(part[Name(i)])
      /\ task[i].state.downloaded_bytes = task[i].current_pos + task[i].downloaded

\* C25 as claimed: an entry never ends in success with completed = true over an output
\* file that the final check of an earlier attempt of the same task found invalid and
\* that was neither deleted nor fetched again since (catalog without repeated names).
C25_NoAcceptanceOfRejected ==
  \A i \in Tasks :
    (cfg.names = Distinct(Len(cfg.names)) /\ task[i].pc = "merge"
       /\ task[i].result = "ok" /\ task[i].state.completed) =>
      ~task[i].rejected

\* the file is some stored bytes up to the offset followed by the whole remote content
FullAfterPartial(f, pos) ==
  LET k == pos \div ChunkSize
  IN /\ Exists(f) /\ pos > 0
     /\ Len(f) = k + Len(Content)
     /\ SubSeq(f, k + 1, Len(f)) = Content

\* C26 as claimed: a GET from a non-zero starting offset carries Range: bytes=<offset>-,
\* and an entry does not end in success with completed = true over a file made of the
\* partial bytes followed by a full-content body (catalog without repeated names).
C26_RangedRequestFullReply ==
  \A i \in Tasks :
    cfg.names = Distinct(Len(cfg.names)) =>
      /\ (task[i].pc \in {"get", "stream"} /\ task[i].current_pos > 0) =>
           task[i].range = task[i].current_pos
      /\ (task[i].pc = "merge" /\ task[i].result = "ok" /\ task[i].state.completed) =>
           ~FullAfterPartial(out[Name(i)], task[i].current_pos)

\* at most one record per file name
UniqueNames(recs) ==
  \A k, l \in 1..Len(recs) : recs[k].file_name = recs[l].file_name => k = l

\* C27: the store loaded at the start of a run holding at most one record per name (an
\* absent record, or one saved by an earlier run), the store in memory and the record
\* on disk hold at most one record per name at every point, also for a batch with two
\* entries of the same name.
C27_StoreKeyUniqueness ==
  UniqueNames(states) /\ UniqueNames(state_file.recs)

\* C27 witness: two entries of the same name both ended in success, each merged its
\* record, and the record saved at the end of the run holds one record of that name.
C27_Witness ==
  /\ cfg.n = 2 /\ Name(1) = Name(2) /\ pcMain = "returned"
  /\ task[1].result = "ok" /\ task[2].result = "ok"
  /\ Len(states) = 1 /\ state_file = Json(states) /\ states[1].file_name = Name(1)

\* C28 as claimed: in a run in which every request and every wait ends, download_all
\* eventually has every task finished, the store saved, and returns, for every batch,
\* retry limit and concurrency limit, 0 included.
C28_Termination ==
  <>(/\ pcMain = "returned"
     /\ \A i \in Tasks : task[i].pc = "done"
     /\ state_file = Json(states))

TypeOK ==
  /\ pcMain \in {"main", "load", "lookup", "acquire", "join", "save", "returned", "error"}
  /\ permits \in 0..MaxThreads
  /\ \A i \in Tasks : task[i].pc \in {"idle", "head", "get", "stream", "backoff", "merge", "release", "done"}
====
